---- MODULE Spec2Model ----
(***************************************************************************)
(* A model of featuretools/mkfeat/columnspec.py (class ColumnSpec) and of  *)
(* featuretools/selection/selection.py (the feature selection filters).    *)
(*                                                                         *)
(* A column descriptor (a Python dict) is a function whose DOMAIN is the   *)
(* set of keys the dict holds, so that `'key' in colinfo` is               *)
(* "key" \in DOMAIN colinfo.  Every operation of the code is one action:   *)
(* it applies the operation to the current inputs and records what the     *)
(* call returned (or raised) in `ret`.                                     *)
(***************************************************************************)
EXTENDS Integers, Sequences, FiniteSets, TLC

VARIABLES
    columns,         \* ColumnSpec.columns: the descriptor list (fixed at construction)
    _auto_keyname,   \* ColumnSpec._auto_keyname: None or the generated key name
    feature_matrix,  \* the DataFrame given to the selection filters: its columns, in order
    corr,            \* what Series.corr returns for each pair of columns of the frame
    features,        \* the argument `features` of remove_low_information_features
    pct_threshold,   \* the argument pct_null_threshold or pct_corr_threshold
    features_to_check,    \* the arguments of find_highly_correlated_features
    features_to_exclude,
    ret              \* the last call: [op, args, out], out what it returned or raised

vars == <<columns, _auto_keyname, feature_matrix, corr, features, pct_threshold,
          features_to_check, features_to_exclude, ret>>
specvars == <<columns, _auto_keyname>>       \* the ColumnSpec object
\* The inputs of the selection filters.
framevars == <<feature_matrix, corr, features, pct_threshold,
               features_to_check, features_to_exclude>>

(***************************************************************************)
(* Bounds of the model.                                                    *)
(***************************************************************************)
MaxValidateCols == 3     \* longest descriptor list given to validate()
MaxKeyCols == 3          \* longest descriptor list given to get_key_colname()
MaxUseCols == 2          \* longest descriptor list given to get_usecols()
MaxFrameCols == 2        \* most columns of a frame given to the null and low information filters
MaxFrameRows == 2        \* most rows of such a frame
MaxFeatures == 2         \* longest `features` list
MaxCorrCols == 2         \* most columns of a frame given to the correlation filter

(***************************************************************************)
(* Python values.                                                          *)
(***************************************************************************)
None == "<None>"

\* What a call did: it returned v, or it raised the exception e.
Return(v) == [val |-> v]
Raise(e) == [exc |-> e]
Raised(out) == "exc" \in DOMAIN out
KeyError == Raise("KeyError")
ValueError == Raise("ValueError")
NoCall == [op |-> "none", args |-> <<>>, out |-> Return(None)]

\* The optional entry k of a dict: absent, or present with a value of vals.
Opt(k, vals) == {<<>>} \cup {k :> v : v \in vals}

\* lst is a list of length 0..n over S.
IsListUpTo(lst, S, n) == \E k \in 0..n : lst \in [1..k -> S]

\* An optional argument: left at its default None, or given as v.
Default == {}
Given(v) == {v}
Value(arg) == CHOOSE v \in arg : TRUE

\* No frame: the state of the selection filters' inputs while a ColumnSpec is used.
NoFrame ==
    /\ feature_matrix = <<>>
    /\ corr = <<>>
    /\ features = Default
    /\ pct_threshold = <<0, 1>>
    /\ features_to_check = Default
    /\ features_to_exclude = Default

\* `k in colinfo and colinfo[k]`
Truthy(colinfo, k) == k \in DOMAIN colinfo /\ colinfo[k]

(***************************************************************************)
(* Error codes of featuretools/mkfeat/error.py, as validate() names them.  *)
(***************************************************************************)
OK == "OK"
ERR_COLUMN_HAS_NO_NAME_OR_TYPE == "ERR_COLUMN_HAS_NO_NAME_OR_TYPE"
ERR_COLUMN_MULTI_KEY == "ERR_COLUMN_MULTI_KEY"
ERR_COLUMN_KEY_AND_LABEL == "ERR_COLUMN_KEY_AND_LABEL"
ERR_COLUMN_MULTI_LABEL == "ERR_COLUMN_MULTI_LABEL"

\* validate() without its key-and-label check.
RECURSIVE validate_loop_no_key_and_label(_, _, _, _)
validate_loop_no_key_and_label(cols, i, has_key, has_label) ==
    IF i > Len(cols) THEN OK
    ELSE LET colinfo == cols[i] IN
        IF "name" \notin DOMAIN colinfo \/ "type" \notin DOMAIN colinfo
        THEN ERR_COLUMN_HAS_NO_NAME_OR_TYPE
        ELSE IF Truthy(colinfo, "key") /\ has_key
        THEN ERR_COLUMN_MULTI_KEY
        ELSE IF Truthy(colinfo, "label") /\ has_label
        THEN ERR_COLUMN_MULTI_LABEL
        ELSE validate_loop_no_key_and_label(cols, i + 1,
                           has_key \/ Truthy(colinfo, "key"),
                           has_label \/ Truthy(colinfo, "label"))

\* validate() with the key-and-label check before the multi-key check.
RECURSIVE validate_loop_swapped(_, _, _, _)
validate_loop_swapped(cols, i, has_key, has_label) ==
    IF i > Len(cols) THEN OK
    ELSE LET colinfo == cols[i] IN
        IF "name" \notin DOMAIN colinfo \/ "type" \notin DOMAIN colinfo
        THEN ERR_COLUMN_HAS_NO_NAME_OR_TYPE
        ELSE IF Truthy(colinfo, "key") /\ Truthy(colinfo, "label")
        THEN ERR_COLUMN_KEY_AND_LABEL
        ELSE IF Truthy(colinfo, "key") /\ has_key
        THEN ERR_COLUMN_MULTI_KEY
        ELSE IF Truthy(colinfo, "label") /\ has_label
        THEN ERR_COLUMN_MULTI_LABEL
        ELSE validate_loop_swapped(cols, i + 1,
                           has_key \/ Truthy(colinfo, "key"),
                           has_label \/ Truthy(colinfo, "label"))

\* validate() that misses a descriptor without 'type' (and for or).
RECURSIVE validate_loop_name_and_type(_, _, _, _)
validate_loop_name_and_type(cols, i, has_key, has_label) ==
    IF i > Len(cols) THEN OK
    ELSE LET colinfo == cols[i] IN
        IF "name" \notin DOMAIN colinfo /\ "type" \notin DOMAIN colinfo
        THEN ERR_COLUMN_HAS_NO_NAME_OR_TYPE
        ELSE IF Truthy(colinfo, "key") /\ has_key
        THEN ERR_COLUMN_MULTI_KEY
        ELSE IF Truthy(colinfo, "key") /\ Truthy(colinfo, "label")
        THEN ERR_COLUMN_KEY_AND_LABEL
        ELSE IF Truthy(colinfo, "label") /\ has_label
        THEN ERR_COLUMN_MULTI_LABEL
        ELSE validate_loop_name_and_type(cols, i + 1,
                           has_key \/ Truthy(colinfo, "key"),
                           has_label \/ Truthy(colinfo, "label"))

(***************************************************************************)
(* ColumnSpec.validate: the loop over self.columns from index i on, with   *)
(* the loop's two flags.                                                   *)
(***************************************************************************)
RECURSIVE validate_loop(_, _, _, _)
validate_loop(cols, i, has_key, has_label) ==
    IF i > Len(cols) THEN OK
    ELSE LET colinfo == cols[i] IN
        IF "name" \notin DOMAIN colinfo \/ "type" \notin DOMAIN colinfo
        THEN ERR_COLUMN_HAS_NO_NAME_OR_TYPE
        ELSE IF Truthy(colinfo, "key") /\ has_key
        THEN ERR_COLUMN_MULTI_KEY
        ELSE IF Truthy(colinfo, "key") /\ Truthy(colinfo, "label")
        THEN ERR_COLUMN_KEY_AND_LABEL
        ELSE IF Truthy(colinfo, "label") /\ has_label
        THEN ERR_COLUMN_MULTI_LABEL
        ELSE validate_loop(cols, i + 1,
                           has_key \/ Truthy(colinfo, "key"),
                           has_label \/ Truthy(colinfo, "label"))

validate(cols) == validate_loop(cols, 1, FALSE, FALSE)

(***************************************************************************)
(* validate() on every descriptor list.                                    *)
(***************************************************************************)
ValidateDescs ==
    {n @@ t @@ k @@ l : n \in Opt("name", {"a"}),
                        t \in Opt("type", {"number"}),
                        k \in Opt("key", BOOLEAN),
                        l \in Opt("label", BOOLEAN)}

InitValidate ==
    /\ IsListUpTo(columns, ValidateDescs, MaxValidateCols)
    /\ _auto_keyname = None
    /\ NoFrame
    /\ ret = NoCall

Validate ==
    /\ ret' = [op |-> "validate", args |-> <<>>, out |-> Return(validate(columns))]
    /\ UNCHANGED <<columns, _auto_keyname, framevars>>

NextValidate == Validate

SpecValidate == InitValidate /\ [][NextValidate]_vars

(***************************************************************************)
(* Claims about validate().                                                *)
(***************************************************************************)
NoNameOrType(colinfo) == "name" \notin DOMAIN colinfo \/ "type" \notin DOMAIN colinfo
KeySet(cols) == {k \in DOMAIN cols : Truthy(cols[k], "key")}
LabelSet(cols) == {k \in DOMAIN cols : Truthy(cols[k], "label")}

WellFormed(cols) ==
    /\ \A k \in DOMAIN cols : ~NoNameOrType(cols[k])
    /\ Cardinality(KeySet(cols)) <= 1
    /\ Cardinality(LabelSet(cols)) <= 1
    /\ KeySet(cols) \cap LabelSet(cols) = {}

FailedCheck(cols, i) ==
    IF NoNameOrType(cols[i]) THEN ERR_COLUMN_HAS_NO_NAME_OR_TYPE
    ELSE IF i \in KeySet(cols) /\ \E j \in KeySet(cols) : j < i THEN ERR_COLUMN_MULTI_KEY
    ELSE IF i \in KeySet(cols) /\ i \in LabelSet(cols) THEN ERR_COLUMN_KEY_AND_LABEL
    ELSE IF i \in LabelSet(cols) /\ \E j \in LabelSet(cols) : j < i THEN ERR_COLUMN_MULTI_LABEL
    ELSE OK

Failing(cols) == {i \in DOMAIN cols : FailedCheck(cols, i) # OK}
FirstFailing(cols) == CHOOSE i \in Failing(cols) : \A j \in Failing(cols) : i <= j

\* C2: validate() returns the code of the first failing check, descriptors
\* scanned in list order and the checks of one descriptor in the order
\* name/type, multi key, key and label, multi label; the descriptors after
\* the first failing one do not change the result.
C2_FirstFailingCheck ==
    ret.op = "validate" =>
        IF Failing(columns) = {} THEN ret.out.val = OK
        ELSE LET i == FirstFailing(columns) IN
             /\ ret.out.val = FailedCheck(columns, i)
             /\ \A n \in i..Len(columns) : validate(SubSeq(columns, 1, n)) = ret.out.val

\* validate() returned MULTI_KEY for a second key that is also a label, with
\* a descriptor without name after it.
C2_MultiKeyBeforeKeyAndLabel ==
    /\ ret.op = "validate"
    /\ ret.out.val = ERR_COLUMN_MULTI_KEY
    /\ LET i == FirstFailing(columns) IN
         /\ i \in LabelSet(columns)
         /\ \E n \in (i + 1)..Len(columns) : NoNameOrType(columns[n])

Missing(cols) == {i \in DOMAIN cols : NoNameOrType(cols[i])}

\* C3 as stated: whenever some descriptor, at any position, has no 'name' or
\* no 'type', validate() returns ERR_COLUMN_HAS_NO_NAME_OR_TYPE.
C3_AnyMissingGivesNoNameOrType ==
    (ret.op = "validate" /\ Missing(columns) # {}) =>
        ret.out.val = ERR_COLUMN_HAS_NO_NAME_OR_TYPE

\* C3 amended: when some descriptor has no 'name' or no 'type' and the
\* descriptors before the first such one break no key or label rule,
\* validate() returns ERR_COLUMN_HAS_NO_NAME_OR_TYPE, whatever the flags of
\* that descriptor and of those after it.
C3_FirstMissingGivesNoNameOrType ==
    (ret.op = "validate" /\ Missing(columns) # {}) =>
        LET i == CHOOSE i \in Missing(columns) : \A j \in Missing(columns) : i <= j IN
        WellFormed(SubSeq(columns, 1, i - 1)) =>
            ret.out.val = ERR_COLUMN_HAS_NO_NAME_OR_TYPE

\* validate() returned NO_NAME_OR_TYPE for a descriptor without 'type' that
\* follows a key and carries a second key=true.
C3_MissingTypeAfterKey ==
    /\ ret.op = "validate"
    /\ ret.out.val = ERR_COLUMN_HAS_NO_NAME_OR_TYPE
    /\ \E i \in Missing(columns) :
         /\ "name" \in DOMAIN columns[i]
         /\ i \in KeySet(columns)
         /\ \E j \in KeySet(columns) : j < i

(***************************************************************************)
(* ColumnSpec.get_colnames: colinfo['name'] of every descriptor, in order; *)
(* KeyError when a descriptor has no 'name'.                               *)
(***************************************************************************)
get_colnames(cols) ==
    IF \E k \in DOMAIN cols : "name" \notin DOMAIN cols[k]
    THEN KeyError
    ELSE Return([k \in DOMAIN cols |-> cols[k].name])

\* The elements of a list: `x in lst` is x \in Elems(lst).
Elems(lst) == {lst[k] : k \in DOMAIN lst}

(***************************************************************************)
(* ColumnSpec._is_numeric_type                                             *)
(***************************************************************************)
\* _is_numeric_type that forgets 'bool'.
_is_numeric_type_number_only(typestr) == typestr = "number"

_is_numeric_type(typestr) == typestr \in {"number", "bool"}

(***************************************************************************)
(* ColumnSpec.get_usecols: the loop over self.columns from index i on,     *)
(* with the names collected so far.  colinfo['type'] and colinfo['name']   *)
(* raise KeyError when the descriptor has no such key.                     *)
(***************************************************************************)
RECURSIVE get_usecols_loop(_, _, _, _, _, _)
get_usecols_loop(cols, i, colnames, numeric_only, label_only, exclude_skip) ==
    IF i > Len(cols) THEN Return(colnames)
    ELSE LET colinfo == cols[i] IN
        IF numeric_only /\ "type" \notin DOMAIN colinfo
        THEN KeyError
        ELSE IF numeric_only /\ ~_is_numeric_type(colinfo.type)
        THEN get_usecols_loop(cols, i + 1, colnames, numeric_only, label_only, exclude_skip)
        ELSE IF label_only /\ ("label" \notin DOMAIN colinfo \/ ~colinfo.label)
        THEN get_usecols_loop(cols, i + 1, colnames, numeric_only, label_only, exclude_skip)
        ELSE IF exclude_skip /\ (\/ Truthy(colinfo, "label")
                                  \/ Truthy(colinfo, "train")
                                  \/ Truthy(colinfo, "bypass"))
        THEN get_usecols_loop(cols, i + 1, colnames, numeric_only, label_only, exclude_skip)
        ELSE IF "name" \notin DOMAIN colinfo
        THEN KeyError
        ELSE get_usecols_loop(cols, i + 1, Append(colnames, colinfo.name),
                              numeric_only, label_only, exclude_skip)

get_usecols(cols, numeric_only, label_only, exclude_skip) ==
    get_usecols_loop(cols, 1, <<>>, numeric_only, label_only, exclude_skip)

(***************************************************************************)
(* ColumnSpec._setup_auto_keyname.                                         *)
(***************************************************************************)
\* The end of range(1, 100000), the candidates "id_1" .. "id_99999".  The model
\* scales it down, so that a list within MaxKeyCols can take every candidate.
AutoKeyRangeEnd == 3

\* "id_{}".format(i)
keyname(i) == "id_" \o ToString(i)

\* The value of `keyname` after the for loop: the first candidate that is not
\* a column name, or the last candidate tried when the loop runs to its end.
auto_keyname_loop(colnames) ==
    LET free(i) == keyname(i) \notin colnames IN
    IF \E i \in 1..(AutoKeyRangeEnd - 1) : free(i)
    THEN keyname(CHOOSE i \in 1..(AutoKeyRangeEnd - 1) :
                     free(i) /\ \A j \in 1..(i - 1) : ~free(j))
    ELSE keyname(AutoKeyRangeEnd - 1)

\* Returns the new value of self._auto_keyname, or raises get_colnames' KeyError.
setup_auto_keyname(cols, cur) ==
    IF cur # None /\ cur # "" THEN Return(cur)
    ELSE LET got == get_colnames(cols) IN
         IF Raised(got) THEN got
         ELSE LET colnames == Elems(got.val) IN
              Return(IF "id" \notin colnames THEN "id" ELSE auto_keyname_loop(colnames))

(***************************************************************************)
(* ColumnSpec.get_key_colname: <<what the call did, new _auto_keyname>>.   *)
(***************************************************************************)
get_key_colname(cols, cur) ==
    IF \E k \in DOMAIN cols : Truthy(cols[k], "key")
    THEN LET k == CHOOSE k \in DOMAIN cols :
                      Truthy(cols[k], "key") /\ \A j \in 1..(k - 1) : ~Truthy(cols[j], "key")
         IN <<IF "name" \in DOMAIN cols[k] THEN Return(cols[k].name) ELSE KeyError, cur>>
    ELSE LET new == setup_auto_keyname(cols, cur)
         IN IF Raised(new) THEN <<KeyError, cur>> ELSE <<new, new.val>>

\* ColumnSpec.is_auto_keyname
is_auto_keyname(cur) == cur # None /\ cur # ""

(***************************************************************************)
(* Descriptor lists.                                                       *)
(***************************************************************************)
\* The candidates "id", "id_1", ... in the order _setup_auto_keyname tries them.
Candidate(i) == IF i = 0 THEN "id" ELSE keyname(i)

KeyNames == {Candidate(i) : i \in 0..(AutoKeyRangeEnd - 1)} \cup {"a"}

KeyDescs ==
    {n @@ t @@ k : n \in Opt("name", KeyNames),
                   t \in {"type" :> "number"},
                   k \in Opt("key", BOOLEAN)}

(***************************************************************************)
(* The key name of a ColumnSpec.                                           *)
(***************************************************************************)
InitKey ==
    /\ IsListUpTo(columns, KeyDescs, MaxKeyCols)
    /\ _auto_keyname = None
    /\ NoFrame
    /\ ret = NoCall

GetKeyColname ==
    LET r == get_key_colname(columns, _auto_keyname) IN
    /\ ret' = [op |-> "get_key_colname", args |-> <<>>, out |-> r[1]]
    /\ _auto_keyname' = r[2]
    /\ UNCHANGED <<columns, framevars>>

IsAutoKeyname ==
    /\ ret' = [op |-> "is_auto_keyname", args |-> <<>>,
                out |-> Return(is_auto_keyname(_auto_keyname))]
    /\ UNCHANGED <<columns, _auto_keyname, framevars>>

NextKey == GetKeyColname \/ IsAutoKeyname

SpecKey == InitKey /\ [][NextKey]_vars

(***************************************************************************)
(* Claims about the key name.                                              *)
(***************************************************************************)
DeclaresKey(cols) == \E k \in DOMAIN cols : Truthy(cols[k], "key")
AllNamed(cols) == \A k \in DOMAIN cols : "name" \in DOMAIN cols[k]

\* C4: whenever is_auto_keyname() is called, whatever calls came before it
\* (none included), it returns true exactly when no descriptor declares
\* key=true.
C4_IsAutoIffNoKeyDeclared ==
    (ret.op = "is_auto_keyname" /\ AllNamed(columns)) =>
        (ret.out.val <=> ~DeclaresKey(columns))

\* C5: on a list (of named descriptors) without a key=true descriptor,
\* get_key_colname() returns the first candidate of "id", "id_1", ... that
\* is no column name, the same at every call and never an existing column
\* name; with a key=true descriptor it returns that descriptor's name.
C5_KeyColname ==
    (ret.op = "get_key_colname" /\ AllNamed(columns)) =>
        LET names == Elems([k \in DOMAIN columns |-> columns[k].name]) IN
        IF DeclaresKey(columns)
        THEN /\ ~Raised(ret.out)
             /\ \E k \in DOMAIN columns :
                    Truthy(columns[k], "key") /\ ret.out.val = columns[k].name
        ELSE /\ ~Raised(ret.out)
             /\ ret.out.val \notin names
             /\ \E i \in 0..(AutoKeyRangeEnd - 1) :
                    /\ ret.out.val = Candidate(i)
                    /\ \A j \in 0..(i - 1) : Candidate(j) \in names
             /\ _auto_keyname = ret.out.val

(***************************************************************************)
(* get_usecols() and get_colnames() on every descriptor list.  The i-th    *)
(* descriptor is named ColName(i), so that the order of a result shows.    *)
(***************************************************************************)
ColName(i) == "c" \o ToString(i)

\* The role flags of a descriptor; 'train' and 'bypass' are not both given.
UseFlags ==
    {f \in {l @@ t @@ b : l \in Opt("label", BOOLEAN),
                          t \in Opt("train", BOOLEAN),
                          b \in Opt("bypass", BOOLEAN)} :
        ~({"train", "bypass"} \subseteq DOMAIN f)}

UseDescs == {("type" :> t) @@ f : t \in {"number", "bool", "string"}, f \in UseFlags}

InitUsecols ==
    /\ \E k \in 0..MaxUseCols : \E ds \in [1..k -> UseDescs] :
           columns = [i \in 1..k |-> ("name" :> ColName(i)) @@ ds[i]]
    /\ _auto_keyname = None
    /\ NoFrame
    /\ ret = NoCall

GetUsecols ==
    \E numeric_only \in BOOLEAN, label_only \in BOOLEAN, exclude_skip \in BOOLEAN :
        /\ ret' = [op |-> "get_usecols",
                   args |-> <<numeric_only, label_only, exclude_skip>>,
                   out |-> get_usecols(columns, numeric_only, label_only, exclude_skip)]
        /\ UNCHANGED <<columns, _auto_keyname, framevars>>

GetColnames ==
    /\ ret' = [op |-> "get_colnames", args |-> <<>>, out |-> get_colnames(columns)]
    /\ UNCHANGED <<columns, _auto_keyname, framevars>>

NextUsecols == GetUsecols \/ GetColnames

SpecUsecols == InitUsecols /\ [][NextUsecols]_vars

(***************************************************************************)
(* Claims about get_usecols().                                             *)
(***************************************************************************)
Passes(colinfo, numeric_only, label_only, exclude_skip) ==
    /\ numeric_only => colinfo.type \in {"number", "bool"}
    /\ label_only => Truthy(colinfo, "label")
    /\ exclude_skip => \A r \in {"label", "train", "bypass"} : ~Truthy(colinfo, r)

\* C6: get_usecols(numeric_only, label_only, exclude_skip) returns, in input
\* order, exactly the names of the descriptors that pass every active
\* filter; with no flag set it equals get_colnames().
C6_UsecolsIsTheFilteredNames ==
    ret.op = "get_usecols" =>
        LET Keep(colinfo) == Passes(colinfo, ret.args[1], ret.args[2], ret.args[3])
            kept == SelectSeq(columns, Keep)
        IN /\ ret.out = Return([k \in DOMAIN kept |-> kept[k].name])
           /\ (ret.args = <<FALSE, FALSE, FALSE>>) => ret.out = get_colnames(columns)

\* get_usecols(numeric_only=True, exclude_skip=True) kept the second of two
\* descriptors, a 'bool' one with false flags, and dropped the first.
C6_KeptSecondOfTwo ==
    /\ ret.op = "get_usecols"
    /\ ret.args = <<TRUE, FALSE, TRUE>>
    /\ Len(columns) = 2
    /\ columns[2].type = "bool"
    /\ "train" \in DOMAIN columns[2]
    /\ ret.out = Return(<<ColName(2)>>)

(***************************************************************************)
(* featuretools/selection/selection.py                                     *)
(*                                                                         *)
(* A float is a fraction <<numerator, denominator>> with a positive        *)
(* denominator; NaN is <<0, 0>>, and every comparison with NaN is false.   *)
(* A column of the frame is [name, dtype, values]; a missing cell is       *)
(* NaNCell.  The i-th column is named FeatName(i): sorted() orders these   *)
(* names as their indices.                                                 *)
(***************************************************************************)
NaN == <<0, 0>>
IsNaN(a) == a[2] = 0
Lt(a, b) == ~IsNaN(a) /\ ~IsNaN(b) /\ a[1] * b[2] < b[1] * a[2]
Gt(a, b) == Lt(b, a)
Ge(a, b) == ~IsNaN(a) /\ ~IsNaN(b) /\ a[1] * b[2] >= b[1] * a[2]
abs(a) == <<IF a[1] < 0 THEN -a[1] ELSE a[1], a[2]>>
Zero == <<0, 1>>
One == <<1, 1>>

NaNCell == "NaN"
FeatName(i) == "f" \o ToString(i)
ColumnNames(fm) == [k \in DOMAIN fm |-> fm[k].name]
Column(fm, name) == fm[CHOOSE k \in DOMAIN fm : fm[k].name = name]

\* Series.nunique(dropna=False): the distinct values, NaN counting as one.
nunique(values) == Cardinality(Elems(values))

\* Series.dropna().shape[0]
dropna_count(values) == Cardinality({r \in DOMAIN values : values[r] # NaNCell})

\* Series.isnull().mean(): NaN on a frame without rows.
isnull_mean(values) ==
    IF Len(values) = 0 THEN NaN
    ELSE <<Cardinality({r \in DOMAIN values : values[r] = NaNCell}), Len(values)>>

(***************************************************************************)
(* remove_low_information_features: the returned frame, and the returned   *)
(* features when a list was given.                                         *)
(***************************************************************************)
\* The keep test with >= 1 for > 1.
keeps_column_at_least_one(col) ==
    nunique(col.values) >= 1 /\ dropna_count(col.values) > 0

keeps_column(col) ==
    nunique(col.values) > 1 /\ dropna_count(col.values) > 0

remove_low_information_features(fm, feats) ==
    LET kept == SelectSeq(fm, keeps_column)
        InKept(f) == f \in Elems(ColumnNames(kept))
    IN IF feats # Default
       THEN Return(<<kept, SelectSeq(Value(feats), InKept)>>)
       ELSE Return(kept)

(***************************************************************************)
(* find_highly_null_features: what the call did, and the columns it read.  *)
(***************************************************************************)
\* The filter with >= for >.
is_highly_null_inclusive(col, pct_null_threshold) ==
    Ge(isnull_mean(col.values), pct_null_threshold)

is_highly_null(col, pct_null_threshold) ==
    Gt(isnull_mean(col.values), pct_null_threshold)

\* The threshold test with <= and >= for < and >.
threshold_out_of_range_closed(threshold) ==
    ~Gt(threshold, Zero) \/ ~Lt(threshold, One)

threshold_out_of_range(threshold) ==
    Lt(threshold, Zero) \/ Gt(threshold, One)

find_highly_null_features(fm, pct_null_threshold) ==
    IF threshold_out_of_range(pct_null_threshold)
    THEN [out |-> ValueError, read |-> {}]
    ELSE LET HighlyNull(col) == is_highly_null(col, pct_null_threshold)
         IN [out |-> Return(ColumnNames(SelectSeq(fm, HighlyNull))),
             read |-> Elems(ColumnNames(fm))]

(***************************************************************************)
(* find_highly_correlated_features.  `order` is the order in which         *)
(* list(features_to_check) yields the names of the set.                    *)
(***************************************************************************)
numeric_dtypes == {"int16", "int32", "int64", "float16", "float32", "float64"}
boolean == {"bool"}
numeric_and_boolean_dtypes == numeric_dtypes \cup boolean

\* tuple(sorted((f_name1, f_name2)))
NameIndex(name) == CHOOSE i \in 1..9 : FeatName(i) = name
sorted_pair(f_name1, f_name2) ==
    IF NameIndex(f_name1) <= NameIndex(f_name2)
    THEN <<f_name1, f_name2>> ELSE <<f_name2, f_name1>>

\* abs(col1.corr(col2))
correlation(table, f_name1, f_name2) == abs(table[{f_name1, f_name2}])

\* The two nested loops over the columns of fm_to_check, from (i, j) on, with
\* the dict highly_correlated_by_pairs as the list of its items.
RECURSIVE correlated_loop(_, _, _, _, _)
correlated_loop(table, names, i, j, by_pairs) ==
    IF i > Len(names) THEN by_pairs
    ELSE IF j > Len(names) THEN correlated_loop(table, names, i + 1, 1, by_pairs)
    ELSE LET pair == sorted_pair(names[i], names[j]) IN
         IF names[i] = names[j] \/ \E k \in DOMAIN by_pairs : by_pairs[k][1] = pair
         THEN correlated_loop(table, names, i, j + 1, by_pairs)
         ELSE correlated_loop(table, names, i, j + 1,
                  Append(by_pairs, <<pair, correlation(table, names[i], names[j])>>))

\* The set features_to_check after the defaults and the exclusion.
checked_features(fm, to_check, to_exclude) ==
    LET given == IF to_check = Default THEN Elems(ColumnNames(fm))
                 ELSE Value(to_check)
    IN IF to_exclude # Default
       THEN {col \in given : col \notin Value(to_exclude)}
       ELSE given

find_highly_correlated_features(fm, table, pct_corr_threshold, order) ==
    IF threshold_out_of_range(pct_corr_threshold)
    THEN [out |-> ValueError, read |-> {}]
    ELSE IF \E k \in DOMAIN order : order[k] \notin Elems(ColumnNames(fm))
    THEN [out |-> KeyError, read |-> {}]     \* feature_matrix[list(features_to_check)]
    ELSE LET IsNumeric(name) == Column(fm, name).dtype \in numeric_and_boolean_dtypes
             fm_to_check == SelectSeq(order, IsNumeric)
             by_pairs == correlated_loop(table, fm_to_check, 1, 1, <<>>)
             High(item) == Ge(item[2], pct_corr_threshold)
             high == SelectSeq(by_pairs, High)
         IN [out |-> Return([k \in DOMAIN high |-> high[k][1]]),
             read |-> Elems(fm_to_check)]

\* The orders in which a list can hold the elements of the set S.
Orders(S) ==
    {o \in [1..Cardinality(S) -> S] : \A a, b \in DOMAIN o : a # b => o[a] # o[b]}

(***************************************************************************)
(* The inputs of the selection filters.                                    *)
(***************************************************************************)
NoColumnSpec == columns = <<>> /\ _auto_keyname = None

Cells == {NaNCell, "1.0", "2.0"}
Thresholds == {<<-1, 10>>, <<0, 1>>, <<1, 2>>, <<1, 1>>, <<11, 10>>}
ValidThresholds == {t \in Thresholds : ~threshold_out_of_range(t)}
Correlations == {NaN, <<-1, 1>>, <<1, 2>>}
Dtypes == {"int64", "bool", "int8", "object"}

\* A frame of float columns with every choice of cells.
IsFrame(fm, maxcols, maxrows) ==
    \E n \in 0..maxcols, r \in 0..maxrows : \E vs \in [1..n -> [1..r -> Cells]] :
        fm = [i \in 1..n |-> [name |-> FeatName(i), dtype |-> "float64", values |-> vs[i]]]

\* A frame of which only the dtypes matter: a column is its name and dtype.
IsTypedFrame(fm, maxcols) ==
    \E n \in 0..maxcols : \E ds \in [1..n -> Dtypes] :
        fm = [i \in 1..n |-> [name |-> FeatName(i), dtype |-> ds[i]]]

\* The pairs of columns of a frame.
Pairs(fm) == {{fm[a].name, fm[b].name} : a, b \in DOMAIN fm} \ {{fm[a].name} : a \in DOMAIN fm}

\* Series.corr answers for the pairs of columns that hold numbers.
IsCorrTable(table, fm) ==
    LET numbers == {p \in Pairs(fm) : \A name \in p : Column(fm, name).dtype # "object"}
    IN \E known \in [numbers -> Correlations] :
        table = [p \in Pairs(fm) |-> IF p \in numbers THEN known[p] ELSE NaN]

\* The sets a caller passes as features_to_check: none, some columns, or a
\* name that is no column.
CheckSets(fm) ==
    {Default} \cup {Given(S) : S \in SUBSET Elems(ColumnNames(fm))}
              \cup {Given(Elems(ColumnNames(fm)) \cup {"other"})}

\* The sets a caller passes as features_to_exclude.
ExcludeSets(fm) == {Default} \cup {Given(S) : S \in SUBSET Elems(ColumnNames(fm))}

NoCorrArgs == corr = <<>> /\ features_to_check = Default /\ features_to_exclude = Default

(***************************************************************************)
(* remove_low_information_features                                         *)
(***************************************************************************)
FeatureNames == {FeatName(1), FeatName(2)}

InitLowInfo ==
    /\ NoColumnSpec
    /\ IsFrame(feature_matrix, MaxFrameCols, MaxFrameRows)
    /\ \/ features = Default
       \/ \E k \in 0..MaxFeatures : \E lst \in [1..k -> FeatureNames] : features = Given(lst)
    /\ pct_threshold = <<0, 1>>
    /\ NoCorrArgs
    /\ ret = NoCall

RemoveLowInformationFeatures ==
    /\ ret' = [op |-> "remove_low_information_features",
               out |-> remove_low_information_features(feature_matrix, features)]
    /\ UNCHANGED <<specvars, framevars>>

NextLowInfo == RemoveLowInformationFeatures

SpecLowInfo == InitLowInfo /\ [][NextLowInfo]_vars

(***************************************************************************)
(* find_highly_null_features                                               *)
(***************************************************************************)
InitNull ==
    /\ NoColumnSpec
    /\ IsFrame(feature_matrix, MaxFrameCols, MaxFrameRows)
    /\ features = Default
    /\ pct_threshold \in ValidThresholds
    /\ NoCorrArgs
    /\ ret = NoCall

FindHighlyNullFeatures ==
    LET r == find_highly_null_features(feature_matrix, pct_threshold) IN
    /\ ret' = [op |-> "find_highly_null_features", out |-> r.out, read |-> r.read]
    /\ UNCHANGED <<specvars, framevars>>

NextNull == FindHighlyNullFeatures

SpecNull == InitNull /\ [][NextNull]_vars

(***************************************************************************)
(* find_highly_correlated_features.  The frame's cells are read only by    *)
(* Series.corr, which `corr` stands for.                                   *)
(***************************************************************************)
InitCorr ==
    /\ NoColumnSpec
    /\ IsTypedFrame(feature_matrix, MaxCorrCols)
    /\ IsCorrTable(corr, feature_matrix)
    /\ features = Default
    /\ pct_threshold \in ValidThresholds
    /\ features_to_check \in CheckSets(feature_matrix)
    /\ features_to_exclude \in ExcludeSets(feature_matrix)
    /\ ret = NoCall

FindHighlyCorrelatedFeatures ==
    \E order \in Orders(checked_features(feature_matrix, features_to_check,
                                         features_to_exclude)) :
        LET r == find_highly_correlated_features(feature_matrix, corr,
                                                 pct_threshold, order) IN
        /\ ret' = [op |-> "find_highly_correlated_features", out |-> r.out, read |-> r.read]
        /\ UNCHANGED <<specvars, framevars>>

NextCorr == FindHighlyCorrelatedFeatures

SpecCorr == InitCorr /\ [][NextCorr]_vars

(***************************************************************************)
(* Both threshold filters with every threshold, in the range or not, on    *)
(* frames of one row.                                                      *)
(***************************************************************************)
InitThreshold ==
    /\ NoColumnSpec
    /\ IsFrame(feature_matrix, MaxCorrCols, 1)
    /\ IsCorrTable(corr, feature_matrix)
    /\ features = Default
    /\ pct_threshold \in Thresholds
    /\ features_to_check = Default
    /\ features_to_exclude = Default
    /\ ret = NoCall

NextThreshold == FindHighlyNullFeatures \/ FindHighlyCorrelatedFeatures

SpecThreshold == InitThreshold /\ [][NextThreshold]_vars

(***************************************************************************)
(* Claims about the selection filters.                                     *)
(***************************************************************************)
MissingCount(col) == Cardinality({r \in DOMAIN col.values : col.values[r] = NaNCell})

\* C7: find_highly_null_features and find_highly_correlated_features raise
\* ValueError if and only if the threshold is below 0 or above 1 (0 and 1 are
\* accepted); they raise before reading any column and return nothing.
C7_ValueErrorIffOutOfRange ==
    ret.op \in {"find_highly_null_features", "find_highly_correlated_features"} =>
        LET outside == pct_threshold[1] < 0 \/ pct_threshold[1] > pct_threshold[2] IN
        /\ Raised(ret.out) <=> outside
        /\ outside => (ret.out = ValueError /\ ret.read = {})

\* find_highly_correlated_features raised on threshold 1.1 and a frame of
\* two columns.
C7_RaisedOnTwoColumns ==
    /\ ret.op = "find_highly_correlated_features"
    /\ pct_threshold = <<11, 10>>
    /\ Len(feature_matrix) = 2
    /\ ret.out = ValueError

\* C8: find_highly_correlated_features returns exactly the pairs {A, B} of
\* different columns of (features_to_check, default all columns) minus
\* features_to_exclude, both of a numeric or boolean dtype, whose absolute
\* correlation is at least the threshold; each pair once, as the sorted
\* tuple.
C8_ExactlyTheCorrelatedPairs ==
    (ret.op = "find_highly_correlated_features" /\ ~Raised(ret.out)) =>
        LET all == {feature_matrix[k].name : k \in DOMAIN feature_matrix}
            given == IF features_to_check = Default THEN all ELSE Value(features_to_check)
            excluded == IF features_to_exclude = Default THEN {}
                        ELSE Value(features_to_exclude)
            numbers == {name \in given \ excluded :
                           Column(feature_matrix, name).dtype \in {"int8", "int64", "bool"}}
            high == {p \in SUBSET numbers :
                        /\ Cardinality(p) = 2
                        /\ ~IsNaN(corr[p])
                        /\ corr[p][1] * corr[p][1] * pct_threshold[2] * pct_threshold[2]
                             >= pct_threshold[1] * pct_threshold[1] * corr[p][2] * corr[p][2]}
        IN /\ {{pair[1], pair[2]} : pair \in Elems(ret.out.val)} = high
           /\ Len(ret.out.val) = Cardinality(high)
           /\ \A k \in DOMAIN ret.out.val :
                  NameIndex(ret.out.val[k][1]) < NameIndex(ret.out.val[k][2])

\* C9: find_highly_null_features returns exactly the columns whose fraction
\* of missing values is strictly greater than the threshold: none with
\* threshold 1, and with threshold 0 every column with a missing value.
C9_StrictlyAboveThreshold ==
    ret.op = "find_highly_null_features" =>
        LET Above(col) == /\ Len(col.values) > 0
                          /\ MissingCount(col) * pct_threshold[2]
                               > pct_threshold[1] * Len(col.values)
            flagged == {k \in DOMAIN feature_matrix : Above(feature_matrix[k])}
        IN /\ ~Raised(ret.out)
           /\ Elems(ret.out.val) = {feature_matrix[k].name : k \in flagged}
           /\ Len(ret.out.val) = Cardinality(flagged)
           /\ pct_threshold = <<1, 1>> => ret.out.val = <<>>
           /\ pct_threshold = <<0, 1>> =>
                  Elems(ret.out.val) = {feature_matrix[k].name : k \in
                      {k \in DOMAIN feature_matrix : MissingCount(feature_matrix[k]) >= 1}}

\* With threshold 0.5, a column half missing was not returned and a column
\* all missing was.
C9_HalfMissingNotReturned ==
    /\ ret.op = "find_highly_null_features"
    /\ pct_threshold = <<1, 2>>
    /\ Len(feature_matrix) = 2
    /\ feature_matrix[1].values = <<NaNCell, "1.0">>
    /\ feature_matrix[2].values = <<NaNCell, NaNCell>>
    /\ ret.out = Return(<<FeatName(2)>>)

\* What C10 says the call returns.
LowInfoResult ==
    ret.op = "remove_low_information_features" =>
        LET Informative(col) ==
                /\ \E a, b \in DOMAIN col.values : col.values[a] # col.values[b]
                /\ \E a \in DOMAIN col.values : col.values[a] # NaNCell
            kept == SelectSeq(feature_matrix, Informative)
            Kept(f) == \E k \in DOMAIN kept : kept[k].name = f
        IN IF features = Default
           THEN ret.out = Return(kept)
           ELSE ret.out = Return(<<kept, SelectSeq(Value(features), Kept)>>)

====
